---- MODULE Spec2Model ----
(***************************************************************************)
(* A model of molt-client.py: the MoltbookClient class (credential loading, *)
(* header construction, registration, the API calls) and the run_menu      *)
(* loop that drives it.                                                    *)
(*                                                                         *)
(* The .env file and os.environ are finite maps from keys to strings.  An  *)
(* HTTP response is a record: whether the transport raised, the status,    *)
(* what .json() makes of the body, and the part of the body the endpoint's *)
(* caller reads.  All strings of the JSON records are strings (spec.md 3). *)
(***************************************************************************)
EXTENDS Integers, Sequences, FiniteSets, TLC

\* ---------------------------------------------------------------- bounds
\* Longest feed the server returns in the model (one more than the menu shows).
MaxFeed == 11

\* ------------------------------------------------------------- constants
\* posts[:10] in run_menu.
DisplayLimit == 10
\* raise_for_status raises from this status on.
ErrorStatus == 400

\* Python's None: a token distinct from every string the model draws.
None == "<NoneType>"

\* `delivered` before any registration of this run returned True.
NotRegistered == "<not registered>"

\* The keys of `mapping` in register, in insertion order, and the field of
\* agent_data each one is read from.
MappedKeys ==
    <<"MOLTBOOK_ID", "MOLTBOOK_API_KEY", "MOLTBOOK_CLAIM_URL",
      "MOLTBOOK_VERIFY_CODE", "MOLTBOOK_NAME">>
AgentFields == <<"id", "api_key", "claim_url", "verification_code", "name">>

\* A key of the .env file the client never writes.
OtherKey == "EDITOR"

\* The empty dict / the empty file / no environment variable.
EmptyMap == [k \in {} |-> ""]

\* ------------------------------------------------------ Python primitives
\* bool(val) of a string or None.
Truthy(val) == val # None /\ val # ""

\* str(val).
Str(val) == IF val = None THEN "None" ELSE val

\* d.get(k): None when the key is missing.
Get(d, k) == IF k \in DOMAIN d THEN d[k] ELSE None

\* os.getenv(key, default).
getenv(env, key, default) == IF key \in DOMAIN env THEN env[key] ELSE default

\* set_key with a slip: a key the file already holds is left as it is.
set_key_keep_existing(f, key, value) ==
    [k \in DOMAIN f \cup {key} |-> IF k \in DOMAIN f THEN f[k] ELSE value]

\* dotenv.set_key(path, key, value): add or overwrite one key, keep the rest.
set_key(f, key, value) ==
    [k \in DOMAIN f \cup {key} |-> IF k = key THEN value ELSE f[k]]

\* dotenv.load_dotenv(path, override): copy the file's keys into os.environ;
\* without override a variable already set keeps its value.
load_dotenv(env, f, override) ==
    [k \in DOMAIN env \cup DOMAIN f |->
        IF k \in DOMAIN f /\ (override \/ k \notin DOMAIN env)
        THEN f[k] ELSE env[k]]

\* ------------------------------------------------------------------ state
VARIABLES
    fileExists,  \* os.path.exists(env_path)
    file,        \* the .env file: key -> value
    environ,     \* os.environ
    api_key,     \* self.api_key
    agent_id,    \* self.agent_id
    name,        \* self.name
    calls,       \* the client calls of the latest handler, in order
    saveCut,     \* a set_key call has raised and cut a save short
    delivered,   \* the api_key field of the response of this run's latest
                 \* registration that returned True
    pc,          \* run_menu's position
    printed,     \* the last line the latest menu handler printed
    displayed,   \* ids of the posts the latest "View Feed" listed, in order
    sel          \* the number accepted at the latest "Enter #", 0 if none

vars ==
    <<fileExists, file, environ, api_key, agent_id, name, calls, saveCut,
      delivered, pc, printed, displayed, sel>>

storeVars ==
    <<fileExists, file, environ, api_key, agent_id, name, saveCut, delivered>>
menuVars == <<pc, printed, displayed, sel>>

\* -------------------------------------------------------------- responses
\* The agents the server can create: every field of one response belongs to
\* one agent.
Gens == {"a", "b"}
Val(g, f) == g \o "." \o f

FieldSet == {AgentFields[i] : i \in DOMAIN AgentFields}
\* Fields the server may also deliver as the empty string.
EmptyableFields == {"api_key"}

\* The sets of fields an 'agent' dict can carry: none, the id alone, the
\* three of spec.md 8, the other two, all five.
Shapes ==
    {{}, {"id"}, {"id", "api_key", "claim_url"}, {"verification_code", "name"},
     FieldSet}

\* The 'agent' dicts: the fields of one shape, of one agent.
AgentDicts ==
    {[f \in P |-> IF f \in E THEN "" ELSE Val(g, f)] :
        <<P, E, g>> \in
            {t \in Shapes \X (SUBSET EmptyableFields) \X Gens :
                t[2] \subseteq t[1]}}

\* requests raised (connection error, timeout): there is no response.
NetErr ==
    [err |-> TRUE, status |-> 0, json |-> "none", agent |-> "absent",
     agent_data |-> EmptyMap, posts |-> "absent", n |-> 0]

\* A response with status s whose body .json() reads as j.
Http(s, j) ==
    [err |-> FALSE, status |-> s, json |-> j, agent |-> "absent",
     agent_data |-> EmptyMap, posts |-> "absent", n |-> 0]

\* What any endpoint can answer: no response, a JSON object with a 2xx or
\* an error status, a body that is not JSON, a JSON list.
HttpResponses ==
    {NetErr, Http(200, "object"), Http(401, "object"), Http(200, "malformed"),
     Http(200, "list")}

\* Bodies of the registration endpoint: 'agent' missing, null, a string,
\* or a dict.
RegisterResponses ==
    HttpResponses
    \cup {[Http(200, "object") EXCEPT !.agent = a] : a \in {"null", "string"}}
    \cup {[Http(200, "object") EXCEPT !.agent = "dict", !.agent_data = d] :
            d \in AgentDicts}

\* The lengths of the feeds: empty, one post, a full page, the longest.
FeedLens == {0, 1, DisplayLimit, MaxFeed}

\* Bodies of the feed endpoint: 'posts' missing, null, a dict, or a list of
\* n posts; an error status can come with a post as well.
FeedResponses ==
    HttpResponses
    \cup {[Http(200, "object") EXCEPT !.posts = k] : k \in {"null", "dict"}}
    \cup {[Http(200, "object") EXCEPT !.posts = "list", !.n = m] : m \in FeedLens}
    \cup {[Http(401, "object") EXCEPT !.posts = "list", !.n = 1]}

\* The id of the i-th post of a feed, and a feed of m posts.
PostId(i) == "p" \o ToString(i)
Posts(m) == [i \in 1..m |-> PostId(i)]

\* ----------------------------------------------------------------- client
\* One client call as the handlers record it.
Call(op, auth, target, direction, resp, raised, ok, result) ==
    [op |-> op, auth |-> auth, target |-> target, direction |-> direction,
     resp |-> resp, raised |-> raised, ok |-> ok, result |-> result]

NoResult == [kind |-> "none", posts |-> <<>>]

\* _get_headers without its `if not self.api_key` guard.
GetHeaders_unguarded(key) == "Bearer " \o Str(key)

\* _get_headers: the Authorization value, None for the empty dict.
GetHeaders(key) == IF ~Truthy(key) THEN None ELSE "Bearer " \o Str(key)

\* The headers of requests.post(url, json=payload, timeout=15) in register.
RegisterHeaders == None

\* response.raise_for_status().
RaisesForStatus(resp) == resp.status >= ErrorStatus

\* The save loop without its `if val:`.
ShouldSave_always(val) == TRUE

\* `if val:` of the save loop.
ShouldSave(val) == Truthy(val)

\* mapping = {...}: the pairs of register, in order.
mapping(agent_data) ==
    [i \in DOMAIN MappedKeys |-> <<MappedKeys[i], Get(agent_data, AgentFields[i])>>]

\* The save loop from pair i on, after `done` set_key calls; the failAt-th
\* set_key call raises (0: none does).
RECURSIVE SaveLoop(_, _, _, _, _)
SaveLoop(f, m, i, done, failAt) ==
    IF i > Len(m) THEN [file |-> f, raised |-> FALSE]
    ELSE IF ShouldSave(m[i][2])
         THEN IF done + 1 = failAt
              THEN [file |-> f, raised |-> TRUE]
              ELSE SaveLoop(set_key(f, m[i][1], Str(m[i][2])), m, i + 1,
                            done + 1, failAt)
         ELSE SaveLoop(f, m, i + 1, done, failAt)

\* The reload without override=True.
Reload_no_override(env, f) == load_dotenv(env, f, FALSE)

\* load_dotenv(self.env_path, override=True) of register.
Reload(env, f) == load_dotenv(env, f, TRUE)

\* `if not agent_data:` after data.get('agent', {}): no 'agent', null, or {}.
NoAgentData(resp) ==
    \/ resp.agent \in {"absent", "null"}
    \/ (resp.agent = "dict" /\ DOMAIN resp.agent_data = {})

\* register up to its return: the value returned and the file left behind.
register_run(resp, failAt) ==
    LET unchanged ==
            [ok |-> FALSE, exists |-> fileExists, file |-> file, cut |-> FALSE]
    IN  IF resp.err \/ RaisesForStatus(resp) \/ resp.json # "object"
        THEN unchanged
        ELSE IF NoAgentData(resp)
        THEN unchanged
        ELSE IF resp.agent = "string"
        THEN [ok |-> FALSE, exists |-> TRUE, file |-> file, cut |-> FALSE]
        ELSE LET saved == SaveLoop(file, mapping(resp.agent_data), 1, 0, failAt)
             IN  [ok |-> ~saved.raised, exists |-> TRUE, file |-> saved.file,
                  cut |-> saved.raised]

\* register(name, description): the whole call, reload and __init__ included.
register(resp, failAt) ==
    LET r == register_run(resp, failAt)
        env == load_dotenv(Reload(environ, r.file), r.file, FALSE)
    IN  /\ fileExists' = r.exists
        /\ file' = r.file
        /\ saveCut' = (saveCut \/ r.cut)
        /\ calls' = <<Call("register", RegisterHeaders, None, None, resp,
                           FALSE, r.ok, NoResult)>>
        /\ IF r.ok
           THEN /\ environ' = env
                /\ api_key' = getenv(env, "MOLTBOOK_API_KEY", None)
                /\ agent_id' = getenv(env, "MOLTBOOK_ID", None)
                /\ name' = getenv(env, "MOLTBOOK_NAME", "Unknown Agent")
                /\ delivered' = Get(resp.agent_data, "api_key")
           ELSE UNCHANGED <<environ, api_key, agent_id, name, delivered>>

\* get_feed: res.json().get('posts', []), [] on any exception.
get_feed_result(resp) ==
    IF resp.err \/ resp.json # "object" THEN [kind |-> "list", posts |-> <<>>]
    ELSE IF resp.posts = "absent" THEN [kind |-> "list", posts |-> <<>>]
    ELSE IF resp.posts = "list" THEN [kind |-> "list", posts |-> Posts(resp.n)]
    ELSE IF resp.posts = "null" THEN [kind |-> "None", posts |-> <<>>]
    ELSE [kind |-> "dict", posts |-> <<>>]

get_feed(resp) ==
    Call("get_feed", GetHeaders(api_key), None, None, resp, FALSE, FALSE,
         get_feed_result(resp))

\* requests.<verb>(...).json() with nothing caught: the request or the
\* parse of the body raises, else the body is returned whatever the status.
JsonRaises(resp) == resp.err \/ resp.json = "malformed"

post(resp) ==
    Call("post", GetHeaders(api_key), None, None, resp, JsonRaises(resp),
         FALSE, NoResult)

comment(post_id, resp) ==
    Call("comment", GetHeaders(api_key), post_id, None, resp,
         JsonRaises(resp), FALSE, NoResult)

vote(post_id, direction, resp) ==
    Call("vote", GetHeaders(api_key), post_id, direction, resp,
         JsonRaises(resp), FALSE, NoResult)

create_submolt(resp) ==
    Call("create_submolt", GetHeaders(api_key), None, None, resp,
         JsonRaises(resp), FALSE, NoResult)

subscribe(submolt_id, resp) ==
    Call("subscribe", GetHeaders(api_key), submolt_id, None, resp,
         JsonRaises(resp), FALSE, NoResult)

semantic_search(resp) ==
    Call("semantic_search", GetHeaders(api_key), None, None, resp,
         JsonRaises(resp), FALSE, NoResult)

\* ------------------------------------------------------------------- Init
\* The .env files a run can start from: none, one without credentials, one
\* with an empty key, one left by an earlier registration.
InitFiles ==
    {[exists |-> FALSE, content |-> EmptyMap],
     [exists |-> TRUE, content |-> (OtherKey :> "vi")],
     [exists |-> TRUE, content |-> ("MOLTBOOK_API_KEY" :> "")],
     [exists |-> TRUE,
      content |-> [k \in {MappedKeys[i] : i \in DOMAIN MappedKeys} \cup {OtherKey} |->
                      IF k = OtherKey THEN "vi"
                      ELSE Val("o", AgentFields[CHOOSE i \in DOMAIN MappedKeys :
                                                    MappedKeys[i] = k])]]}

\* The environment the process inherits: nothing of the client's, or a key.
InitEnvirons == {EmptyMap, ("MOLTBOOK_API_KEY" :> "shell.api_key")}

\* The starts: any file under an empty environment, and a key inherited
\* where there is no file.
InitStates ==
    {<<f, EmptyMap>> : f \in InitFiles}
    \cup {<<f, e>> : f \in {g \in InitFiles : ~g.exists}, e \in InitEnvirons}

\* A process starts: run_menu is about to construct the client, which
\* __init__ loads from file f under the inherited environment.
Init ==
    \E st \in InitStates :
        LET f == st[1]
            shell == st[2]
            env == load_dotenv(shell, f.content, FALSE)
        IN  /\ fileExists = f.exists
            /\ file = f.content
            /\ environ = env
            /\ api_key = getenv(env, "MOLTBOOK_API_KEY", None)
            /\ agent_id = getenv(env, "MOLTBOOK_ID", None)
            /\ name = getenv(env, "MOLTBOOK_NAME", "Unknown Agent")
            /\ calls = <<>>
            /\ saveCut = FALSE
            /\ delivered = NotRegistered
            /\ pc = "start"
            /\ printed = ""
            /\ displayed = <<>>
            /\ sel = 0

\* Which set_key call raises: none, the first, the second, the last.
FailPoints == {0, 1, 2, Len(MappedKeys)}

\* ---------------------------------------------------------------- run_menu
\* What input() can return at "Enter # to reply/upvote": a string that is
\* not all digits, or the decimal numeral of int.
SelInputs ==
    {[isdigit |-> FALSE, int |-> 0]}
    \cup {[isdigit |-> TRUE, int |-> k] : k \in {0, MaxFeed + 1} \cup FeedLens}

ActionInputs == {"r", "V", "b"}

\* action.lower().
Lower(a) == IF a = "R" THEN "r" ELSE IF a = "V" THEN "v" ELSE a

\* posts[:10].
Shown(posts) ==
    SubSeq(posts, 1, IF Len(posts) < DisplayLimit THEN Len(posts) ELSE DisplayLimit)

\* `sel.isdigit() and 0 < int(sel) <= len(posts)`.
Accepts(s, posts) == s.isdigit /\ 0 < s.int /\ s.int <= Len(posts)

\* An uncaught exception leaves run_menu: the handler's calls so far stay.
Crash(cs) ==
    /\ calls' = cs
    /\ pc' = "crashed"
    /\ printed' = "Traceback"

\* The handler ends and the loop prompts again.
Back(cs, line) ==
    /\ calls' = cs
    /\ pc' = "loop"
    /\ printed' = line

\* client = MoltbookClient(); register first when there is no api_key.
MenuStart ==
    /\ pc = "start"
    /\ UNCHANGED <<displayed, sel>>
    /\ IF ~Truthy(api_key)
       THEN \E resp \in RegisterResponses, failAt \in FailPoints :
               /\ register(resp, failAt)
               /\ pc' = IF calls'[1].ok THEN "loop" ELSE "returned"
               /\ printed' = IF calls'[1].ok THEN "Registration saved to .env!"
                             ELSE "Registration failed"
       ELSE /\ pc' = "loop"
            /\ UNCHANGED <<storeVars, calls, printed>>

\* choice == "1" up to the "Enter #" prompt: the feed is fetched and listed.
ViewFeed ==
    /\ pc = "loop"
    /\ UNCHANGED storeVars
    /\ sel' = 0
    /\ \E resp \in FeedResponses :
          LET feed == get_feed(resp)
              posts == feed.result.posts
          IN  IF feed.result.kind = "None" \/ (feed.result.kind = "list" /\ posts = <<>>)
              THEN /\ Back(<<feed>>, "Feed is empty. Ensure your agent is 'claimed'.")
                   /\ displayed' = <<>>
              ELSE IF feed.result.kind # "list"
              THEN /\ Crash(<<feed>>)
                   /\ displayed' = <<>>
              ELSE /\ calls' = <<feed>>
                   /\ displayed' = Shown(posts)
                   /\ printed' = ""
                   /\ pc' = "sel"

\* The answer to "Enter #": a number of the feed goes on to "(r)eply or
\* (v)ote?", anything else back to the menu.
Select ==
    /\ pc = "sel"
    /\ UNCHANGED <<storeVars, calls, printed, displayed>>
    /\ \E s \in SelInputs :
          IF Accepts(s, calls[1].result.posts)
          THEN sel' = s.int /\ pc' = "action"
          ELSE sel' = 0 /\ pc' = "loop"

\* The answer to "(r)eply or (v)ote?": target = posts[int(sel)-1].
ReplyOrVote ==
    /\ pc = "action"
    /\ UNCHANGED <<storeVars, displayed, sel>>
    /\ \E action \in ActionInputs, w \in HttpResponses :
          LET target == calls[1].result.posts[sel]
          IN  IF Lower(action) = "r"
              THEN LET c == comment(target, w)
                   IN  IF c.raised THEN Crash(<<calls[1], c>>)
                       ELSE Back(<<calls[1], c>>, "Reply sent!")
              ELSE IF Lower(action) = "v"
              THEN LET c == vote(target, "up", w)
                   IN  IF c.raised THEN Crash(<<calls[1], c>>)
                       ELSE Back(<<calls[1], c>>, "Upvoted!")
              ELSE Back(calls, "")

\* choice == "2".
NewPost ==
    /\ pc = "loop"
    /\ UNCHANGED <<storeVars, displayed, sel>>
    /\ \E w \in HttpResponses :
          LET c == post(w)
          IN  IF c.raised THEN Crash(<<c>>) ELSE Back(<<c>>, "Post sent!")

\* choice == "3": results.get('posts', []) needs a JSON object.
Search ==
    /\ pc = "loop"
    /\ UNCHANGED <<storeVars, displayed, sel>>
    /\ \E w \in HttpResponses :
          LET c == semantic_search(w)
          IN  IF c.raised \/ w.json # "object" THEN Crash(<<c>>)
              ELSE Back(<<c>>, "")

\* choice == "4": res.get('id') needs a JSON object.
NewSubmolt ==
    /\ pc = "loop"
    /\ UNCHANGED <<storeVars, displayed, sel>>
    /\ \E w \in HttpResponses :
          LET c == create_submolt(w)
          IN  IF c.raised \/ w.json # "object" THEN Crash(<<c>>)
              ELSE Back(<<c>>, "Created!")

\* choice == "5".
JoinSubmolt ==
    /\ pc = "loop"
    /\ UNCHANGED <<storeVars, displayed, sel>>
    /\ \E w \in HttpResponses :
          LET c == subscribe("s1", w)
          IN  IF c.raised THEN Crash(<<c>>) ELSE Back(<<c>>, "Subscribed!")

\* choice == "6".
Exit ==
    /\ pc = "loop"
    /\ pc' = "exited"
    /\ UNCHANGED <<storeVars, calls, printed, displayed, sel>>

\* The script is run again after the process ended: the file is what the
\* last run left, the environment is inherited anew.
Rerun ==
    /\ pc \in {"exited", "returned", "crashed"}
    /\ UNCHANGED <<fileExists, file, saveCut>>
    /\ \E shell \in InitEnvirons :
          LET env == load_dotenv(shell, file, FALSE)
          IN  /\ environ' = env
              /\ api_key' = getenv(env, "MOLTBOOK_API_KEY", None)
              /\ agent_id' = getenv(env, "MOLTBOOK_ID", None)
              /\ name' = getenv(env, "MOLTBOOK_NAME", "Unknown Agent")
    /\ calls' = <<>>
    /\ delivered' = NotRegistered
    /\ pc' = "start"
    /\ printed' = ""
    /\ displayed' = <<>>
    /\ sel' = 0

\* Any other choice: no branch is taken.
OtherChoice ==
    /\ pc = "loop"
    /\ Back(<<>>, "")
    /\ UNCHANGED <<storeVars, displayed, sel>>

Next ==
    \/ MenuStart
    \/ ViewFeed
    \/ Select
    \/ ReplyOrVote
    \/ NewPost
    \/ Search
    \/ NewSubmolt
    \/ JoinSubmolt
    \/ Exit
    \/ OtherChoice
    \/ Rerun

Spec == Init /\ [][Next]_vars

\* ------------------------------------------------------------------ claims
LastCall == calls[Len(calls)]

\* The latest handler was a registration that returned True / False.
RegisteredOk == Len(calls) = 1 /\ calls[1].op = "register" /\ calls[1].ok
RegisterFailed == Len(calls) = 1 /\ calls[1].op = "register" /\ ~calls[1].ok

WriteOps == {"post", "comment", "vote", "create_submolt", "subscribe"}

\* What spec.md 7 calls a transport/parse failure.
TransportFailure(resp) ==
    resp.err \/ resp.status >= ErrorStatus \/ resp.json = "malformed"

Confirmations ==
    {"Post sent!", "Reply sent!", "Upvoted!", "Created!", "Subscribed!"}

\* The values a registration of the model writes.
RegisteredValues == {Val(g, f) : g \in Gens, f \in FieldSet}

\* C1 (as claimed): a registration that returns False leaves the .env file
\* exactly as it was, and does not create it.
C1_FailedRegisterKeepsFile ==
    [][(pc = "start" /\ RegisterFailed')
          => (file' = file /\ fileExists' = fileExists)]_vars

\* C2 (as claimed): once register has returned True, the in-memory api_key is
\* the api_key of that response and every later call carries it as its
\* bearer token.
C2_AlwaysNewKey ==
    delivered # NotRegistered =>
        /\ api_key = delivered
        /\ \A i \in DOMAIN calls :
              calls[i].op # "register" =>
                  calls[i].auth = "Bearer " \o Str(delivered)

\* C2 (amended): once register has returned True on a response whose agent
\* record carries a non-empty api_key, the in-memory api_key is that key and
\* every later call of the run carries 'Bearer <that key>'.
C2_NewKeyWhenDelivered ==
    (delivered # NotRegistered /\ Truthy(delivered)) =>
        /\ api_key = delivered
        /\ \A i \in DOMAIN calls :
              calls[i].op # "register" =>
                  calls[i].auth = "Bearer " \o delivered

\* C2 witness: a post sent with the key a registration of this run delivered.
C2_Witness ==
    /\ delivered \in RegisteredValues
    /\ Len(calls) = 1
    /\ calls[1].op = "post"
    /\ calls[1].auth = "Bearer " \o delivered

\* C3: the save of a registration that completes writes every mapped key
\* whose response value is non-empty with exactly that value, leaves every
\* mapped key whose value is absent or empty as the file had it (present with
\* its old value or absent, never "None"), and leaves every other key of
\* the file as it was.
C3_SaveIsPartialUpdate ==
    [][(pc = "start" /\ RegisteredOk') =>
          LET d == calls'[1].resp.agent_data
              mapped == {MappedKeys[i] : i \in DOMAIN MappedKeys}
          IN  /\ \A i \in DOMAIN MappedKeys :
                    LET k == MappedKeys[i]
                        v == Get(d, AgentFields[i])
                    IN  IF v # None /\ v # ""
                        THEN k \in DOMAIN file' /\ file'[k] = v
                        ELSE /\ (k \in DOMAIN file') = (k \in DOMAIN file)
                             /\ k \in DOMAIN file => file'[k] = file[k]
              /\ \A k \in (DOMAIN file \cup DOMAIN file') \ mapped :
                    /\ k \in DOMAIN file
                    /\ k \in DOMAIN file'
                    /\ file'[k] = file[k]]_vars

\* C3 witness: after a registration that returned True the file holds a
\* value of the response, a mapped key the response did not carry, and the
\* key the client never writes.
C3_Witness ==
    /\ RegisteredOk
    /\ ~saveCut
    /\ OtherKey \in DOMAIN file
    /\ \E i \in DOMAIN MappedKeys :
          /\ Get(calls[1].resp.agent_data, AgentFields[i]) \in RegisteredValues
          /\ file[MappedKeys[i]] = calls[1].resp.agent_data[AgentFields[i]]
    /\ \E i \in DOMAIN MappedKeys :
          /\ AgentFields[i] \notin DOMAIN calls[1].resp.agent_data
          /\ MappedKeys[i] \in DOMAIN file

\* C4 (as claimed): get_feed never raises, always returns a sequence of
\* posts, and returns the empty one on a network error, an error status, a
\* malformed or non-object body or a body without 'posts'.
C4_FeedDegradesToEmpty ==
    \A i \in DOMAIN calls :
        calls[i].op = "get_feed" =>
            /\ ~calls[i].raised
            /\ calls[i].result.kind = "list"
            /\ (\/ TransportFailure(calls[i].resp)
                \/ calls[i].resp.json # "object"
                \/ calls[i].resp.posts = "absent")
                  => calls[i].result.posts = <<>>

\* C5 (as claimed): a write call that fails ends only its menu action: the
\* loop goes on prompting.
C5_WriteFailureKeepsLoop ==
    (Len(calls) > 0 /\ LastCall.op \in WriteOps /\ LastCall.raised)
        => pc = "loop"

\* C6 (as claimed): semantic_search does not raise on a failure, and menu
\* choice 3 goes back to the loop.
C6_SearchDegrades ==
    (Len(calls) > 0 /\ LastCall.op = "semantic_search"
        /\ TransportFailure(LastCall.resp))
        => (~LastCall.raised /\ pc = "loop")

\* C7 (as claimed): a write call raises on every transport/parse failure, an
\* error status included, so a confirmation is printed only after a 2xx
\* response with a parsable body.
C7_ConfirmOnlyOn2xx ==
    /\ \A i \in DOMAIN calls :
          (calls[i].op \in WriteOps /\ TransportFailure(calls[i].resp))
              => calls[i].raised
    /\ printed \in Confirmations =>
          /\ Len(calls) > 0
          /\ ~TransportFailure(LastCall.resp)

\* C8: a request carries an Authorization header exactly when the client's
\* api_key is present and non-empty, its value is 'Bearer ' and the key,
\* never an empty or placeholder token; the registration request has none.
C8_AuthIffKey ==
    \A i \in DOMAIN calls :
        IF calls[i].op = "register"
        THEN calls[i].auth = None
        ELSE /\ (calls[i].auth # None) = (api_key # None /\ api_key # "")
             /\ calls[i].auth # None => calls[i].auth = "Bearer " \o api_key
             /\ calls[i].auth \notin {"Bearer ", "Bearer None"}

\* C8 witness: the client holds an empty api_key and has sent a request
\* without the header.
C8_Witness ==
    /\ api_key = ""
    /\ Len(calls) > 0
    /\ calls[1].op = "get_feed"
    /\ calls[1].auth = None

\* C9 (as claimed): a reply or a vote goes to the post displayed as the
\* accepted item, a vote with direction 'up'; without an accepted number
\* there is no comment or vote call.
C9_TargetIsDisplayedItem ==
    /\ \A i \in DOMAIN calls :
          calls[i].op \in {"comment", "vote"} =>
              /\ i = 2 /\ Len(calls) = 2
              /\ sel \in DOMAIN displayed
              /\ calls[i].target = displayed[sel]
              /\ calls[i].op = "vote" => calls[i].direction = "up"
    /\ (pc = "loop" /\ sel = 0) =>
          \A i \in DOMAIN calls : calls[i].op \notin {"comment", "vote"}

\* C10 (as claimed): after registrations that returned True, no credential
\* key of the file still holds a value an earlier registration wrote: each
\* one has the value of the latest response.
C10_NoEarlierValues ==
    (RegisteredOk /\ ~saveCut) =>
        \A i \in DOMAIN MappedKeys :
            (MappedKeys[i] \in DOMAIN file /\ file[MappedKeys[i]] \in RegisteredValues)
                => file[MappedKeys[i]] = Get(calls[1].resp.agent_data, AgentFields[i])

\* C10 (amended): after a registration that returned True, every credential
\* key for which the latest response carried a non-empty value holds that
\* value in the file, and so do the api_key, agent_id and name of the client.
C10_DeliveredFieldsAreLatest ==
    RegisteredOk =>
        LET d == calls[1].resp.agent_data
        IN  /\ \A i \in DOMAIN MappedKeys :
                  Truthy(Get(d, AgentFields[i])) =>
                      /\ MappedKeys[i] \in DOMAIN file
                      /\ file[MappedKeys[i]] = d[AgentFields[i]]
            /\ Truthy(Get(d, "api_key")) => api_key = d["api_key"]
            /\ Truthy(Get(d, "id")) => agent_id = d["id"]
            /\ Truthy(Get(d, "name")) => name = d["name"]

\* C10 witness: a registration returned True and the file holds fields of
\* two agents.
C10_Witness ==
    /\ RegisteredOk
    /\ ~saveCut
    /\ \E i, j \in DOMAIN MappedKeys :
          /\ MappedKeys[i] \in DOMAIN file
          /\ MappedKeys[j] \in DOMAIN file
          /\ file[MappedKeys[i]] = Val("a", AgentFields[i])
          /\ file[MappedKeys[j]] = Val("b", AgentFields[j])

====
